---- MODULE Spec2Model ----
EXTENDS Integers, Sequences, FiniteSets, TLC

(***************************************************************************)
(* Model of the monkey-rs front end: the Lexer (src/src/lexer.rs) and the  *)
(* Parser (src/src/parser.rs).  Characters are modelled as short strings:  *)
(* "sp" "tab" "nl" "cr" are the four whitespace characters, and "D" is a   *)
(* non-ASCII character for which char::is_numeric holds (e.g. U+0663),     *)
(* two bytes long in UTF-8.  Every other character is itself.              *)
(***************************************************************************)

VARIABLES
    input, rp, ch, out, last, tokStart, nones,          \* Lexer spec
    src, lrp, lch, curr, peek, prog, pc, pend           \* Parser spec

lvars == <<input, rp, ch, out, last, tokStart, nones>>
pvars == <<src, lrp, lch, curr, peek, prog, pc, pend>>
vars == <<input, rp, ch, out, last, tokStart, nones,
          src, lrp, lch, curr, peek, prog, pc, pend>>

MaxLen == 3

Min(a, b) == IF a < b THEN a ELSE b

AsciiLetters == {"a", "b", "c", "e", "f", "i", "l", "n", "r", "s", "t", "u", "x", "y"}
Numerals == {"1", "5", "8", "D"}
UTF8Len(c) == IF c = "D" THEN 2 ELSE 1

is_letter(c) == c \in AsciiLetters \/ c = "_"

is_digit(c) == c \in Numerals

is_whitespace(c) == c \in {"sp", "tab", "nl", "cr"}

NoChar == "None"

\* self.input.chars().nth(i)
Nth(s, i) == IF i < Len(s) THEN s[i + 1] ELSE NoChar

RECURSIVE TakeLetters(_, _)
TakeLetters(s, i) ==
    IF i < Len(s) /\ is_letter(s[i + 1]) THEN <<s[i + 1]>> \o TakeLetters(s, i + 1) ELSE <<>>

RECURSIVE TakeDigits(_, _)
TakeDigits(s, i) ==
    IF i < Len(s) /\ is_digit(s[i + 1]) THEN <<s[i + 1]>> \o TakeDigits(s, i + 1) ELSE <<>>

RECURSIVE CountWs(_, _)
CountWs(s, i) ==
    IF i < Len(s) /\ is_whitespace(s[i + 1]) THEN 1 + CountWs(s, i + 1) ELSE 0

read_identifier(s, pos) == TakeLetters(s, pos)

read_number(s, pos) == TakeDigits(s, pos)

\* String::len: the length in bytes of the UTF-8 encoding
RECURSIVE ByteLen(_)
ByteLen(s) == IF s = <<>> THEN 0 ELSE UTF8Len(Head(s)) + ByteLen(Tail(s))

Tok(k) == [t |-> k, s |-> <<>>]

\* Option::None returned by Lexer::next / stored in the Parser's token slots
NoneTok == Tok("None")

KwFn == <<"f", "n">>
KwLet == <<"l", "e", "t">>
KwTrue == <<"t", "r", "u", "e">>
KwFalse == <<"f", "a", "l", "s", "e">>
KwIf == <<"i", "f">>
KwElse == <<"e", "l", "s", "e">>
KwReturn == <<"r", "e", "t", "u", "r", "n">>

look_up_identifier_NoReturn(ident) ==
    CASE ident = KwFn -> Tok("Function")
      [] ident = KwLet -> Tok("Let")
      [] ident = KwTrue -> Tok("True")
      [] ident = KwFalse -> Tok("False")
      [] ident = KwIf -> Tok("If")
      [] ident = KwElse -> Tok("Else")
      [] OTHER -> [t |-> "Identifier", s |-> ident]

look_up_identifier(ident) ==
    CASE ident = KwFn -> Tok("Function")
      [] ident = KwLet -> Tok("Let")
      [] ident = KwTrue -> Tok("True")
      [] ident = KwFalse -> Tok("False")
      [] ident = KwIf -> Tok("If")
      [] ident = KwElse -> Tok("Else")
      [] ident = KwReturn -> Tok("Return")
      [] OTHER -> [t |-> "Identifier", s |-> ident]

\* Token::len
TokenLen(tok) ==
    CASE tok.t \in {"Illegal", "Eof"} -> 0
      [] tok.t \in {"Identifier", "Literal"} -> ByteLen(tok.s)
      [] tok.t \in {"Comma", "Semicolon", "LParen", "RParen", "LBrace", "RBrace",
                    "Assign", "Plus", "Minus", "Bang", "Asterisk", "Slash", "LT", "GT"} -> 1
      [] tok.t \in {"Function", "If", "EQ", "NotEq"} -> 2
      [] tok.t = "Let" -> 3
      [] tok.t \in {"True", "Else"} -> 4
      [] tok.t = "False" -> 5
      [] tok.t = "Return" -> 6

\* the match on self.ch in Lexer::next (peek_char_head is nth(read_position + 1))
Classify(s, pos, c) ==
    CASE c = NoChar -> Tok("Eof")
      [] c = "," -> Tok("Comma")
      [] c = ";" -> Tok("Semicolon")
      [] c = "(" -> Tok("LParen")
      [] c = ")" -> Tok("RParen")
      [] c = "{" -> Tok("LBrace")
      [] c = "}" -> Tok("RBrace")
      [] c = "+" -> Tok("Plus")
      [] c = "-" -> Tok("Minus")
      [] c = "=" -> IF Nth(s, pos + 1) = "=" THEN Tok("EQ") ELSE Tok("Assign")
      [] c = "!" -> IF Nth(s, pos + 1) = "=" THEN Tok("NotEq") ELSE Tok("Bang")
      [] c = "*" -> Tok("Asterisk")
      [] c = "/" -> Tok("Slash")
      [] c = "<" -> Tok("LT")
      [] c = ">" -> Tok("GT")
      [] OTHER -> IF is_letter(c) THEN look_up_identifier(read_identifier(s, pos))
                  ELSE IF is_digit(c) THEN [t |-> "Literal", s |-> read_number(s, pos)]
                  ELSE Tok("Illegal")

\* Lexer::next as a function of the lexer's fields (input, read_position, ch):
\* skip_white_spaces, classify, return None on Eof, else advance by Token::len
\* and read_char.  start is the read_position the token was classified at.
LexNextFn(s, pos, c) ==
    LET sp == CountWs(s, pos)
        pos1 == IF sp > 0 THEN pos + sp ELSE pos
        c1 == IF sp > 0 THEN Nth(s, pos1) ELSE c
        tok == Classify(s, pos1, c1)
    IN IF tok = Tok("Eof")
       THEN [res |-> NoneTok, rp |-> pos1, ch |-> c1, start |-> pos1]
       ELSE [res |-> tok, rp |-> pos1 + TokenLen(tok),
             ch |-> Nth(s, pos1 + TokenLen(tok)), start |-> pos1]

(***************************************************************************)
(* Lexer specification: a Lexer built by Lexer::from on a bounded input,   *)
(* driven by repeated calls of Iterator::next.                             *)
(***************************************************************************)

LexAlphabet == {"sp", "nl", "f", "n", "_", "1", "D", "=", "!", ";", "@"}

LexInputs == UNION {[1..n -> LexAlphabet] : n \in 0..MaxLen}

MaxOut == MaxLen + 1

PDummy ==
    /\ src = [fam |-> "none", chars |-> <<>>, exp |-> <<>>, id |-> <<>>]
    /\ lrp = 0 /\ lch = NoChar /\ curr = NoneTok /\ peek = NoneTok
    /\ prog = <<>> /\ pc = "none" /\ pend = [kind |-> "none", name |-> <<>>]

\* Lexer::from: read_position 0, then read_char
Init ==
    /\ input \in LexInputs
    /\ rp = 0
    /\ ch = Nth(input, 0)
    /\ out = <<>>
    /\ last = Tok("init")
    /\ tokStart = 0
    /\ nones = 0
    /\ PDummy

\* one call of Iterator::next on the Lexer
IteratorNext ==
    LET r == LexNextFn(input, rp, ch) IN
    /\ rp' = r.rp
    /\ ch' = r.ch
    /\ last' = r.res
    /\ tokStart' = r.start
    /\ out' = IF r.res = NoneTok \/ Len(out) >= MaxOut THEN out ELSE Append(out, r.res)
    /\ nones' = IF r.res = NoneTok THEN Min(nones + 1, 2) ELSE nones
    /\ UNCHANGED input
    /\ UNCHANGED pvars

Next == IteratorNext

Spec == Init /\ [][Next]_vars

LiveSpec == Spec /\ WF_vars(IteratorNext)

(***************************************************************************)
(* Reference maximal-munch tokenizer of the spec (section 4.1), the oracle *)
(* of C4: each token advances the cursor by the characters it spans.      *)
(***************************************************************************)

RefTok(s, i) ==
    LET c == s[i + 1]
        nx == IF i + 1 < Len(s) THEN s[i + 2] ELSE NoChar
    IN CASE c = ";" -> [tok |-> Tok("Semicolon"), w |-> 1]
         [] c = "=" /\ nx = "=" -> [tok |-> Tok("EQ"), w |-> 2]
         [] c = "=" -> [tok |-> Tok("Assign"), w |-> 1]
         [] c = "!" /\ nx = "=" -> [tok |-> Tok("NotEq"), w |-> 2]
         [] c = "!" -> [tok |-> Tok("Bang"), w |-> 1]
         [] is_letter(c) -> [tok |-> look_up_identifier(TakeLetters(s, i)), w |-> Len(TakeLetters(s, i))]
         [] is_digit(c) -> [tok |-> [t |-> "Literal", s |-> TakeDigits(s, i)], w |-> Len(TakeDigits(s, i))]
         [] OTHER -> [tok |-> Tok("Illegal"), w |-> 1]

RECURSIVE RefFrom(_, _)
RefFrom(s, i) ==
    IF i >= Len(s) THEN <<>>
    ELSE IF is_whitespace(s[i + 1]) THEN RefFrom(s, i + 1)
    ELSE LET r == RefTok(s, i) IN <<r.tok>> \o RefFrom(s, i + r.w)

IsPrefix(a, b) == Len(a) <= Len(b) /\ SubSeq(b, 1, Len(a)) = a

NoIllegalChar(s) == \A i \in 1..Len(s) : s[i] # "@"

WhitespaceOnly(s) == \A i \in 1..Len(s) : is_whitespace(s[i])

\* C1: the pull sequence ends in exactly one Eof token: once next has
\* returned None, the tokens produced so far end with a single Eof token.
C1_Original ==
    nones > 0 => (Len(out) > 0 /\ out[Len(out)] = Tok("Eof")
                  /\ \A i \in 1..Len(out) - 1 : out[i] # Tok("Eof"))

\* C2: every unrecognised character yields one Illegal token and scanning
\* continues at the following character.
C2_Claim == last = Tok("Illegal") => rp = tokStart + 1

\* C3: a whitespace-only input produces exactly one token, Eof.
C3_Original == (WhitespaceOnly(input) /\ nones > 0) => out = <<Tok("Eof")>>

\* C4: on inputs without illegal characters the Lexer's tokens are those of the
\* reference maximal-munch tokenizer, and all of them once next returns None.
C4_Claim ==
    NoIllegalChar(input) =>
        /\ IsPrefix(out, RefFrom(input, 0))
        /\ (nones > 0 => out = RefFrom(input, 0))

(***************************************************************************)
(* Parser specification: Parser::new on a Lexer built from a bounded       *)
(* input, then parse_program, one loop iteration or token advance per      *)
(* step.  Inputs are words joined by a space.                              *)
(***************************************************************************)

MaxWords == 3
MaxStmts == 2
MaxExpr == 1
MaxIdLen == 2

RECURSIVE Join(_)
Join(ws) == IF ws = <<>> THEN <<>>
            ELSE IF Len(ws) = 1 THEN Head(ws)
            ELSE Head(ws) \o <<"sp">> \o Join(Tail(ws))

WLet == KwLet
WReturn == KwReturn
WX == <<"x">>
WY == <<"y">>
WAssign == <<"=">>
WFive == <<"5">>
WSemi == <<";">>
WAt == <<"@">>

Vocab == {WLet, WReturn, WX, WAssign, WFive, WSemi, WAt}

SeqsUpTo(S, n) == UNION {[1..k -> S] : k \in 0..n}

\* inputs of arbitrary words
RandFam == {[fam |-> "rand", chars |-> Join(ws), exp |-> <<>>, id |-> <<>>] :
                ws \in SeqsUpTo(Vocab, MaxWords) \ {<<>>}}

\* `let x 5;`, `let 5 = x;` and `a + b * c`, `a + b + c`
BadLet == [fam |-> "badlet", chars |-> Join(<<WLet, WFive, WAssign, WX, WSemi>>), exp |-> <<>>, id |-> <<>>]
NoAssign == [fam |-> "noassign", chars |-> Join(<<WLet, WX, WFive, WSemi>>), exp |-> <<>>, id |-> <<>>]
InfixFam == {[fam |-> "infix", chars |-> Join(<<<<"a">>, <<"+">>, <<"b">>, op, <<"c">>>>),
              exp |-> <<>>, id |-> <<>>] : op \in {<<"*">>, <<"+">>}}

\* well-formed programs of let and return statements
WNum == <<"D">>
ExprWords == {WFive, WNum, WX, WLet, WAssign}
StmtDescs == {[k |-> "Let", id |-> i, e |-> e] : i \in {WX, WY}, e \in SeqsUpTo(ExprWords, MaxExpr)}
             \cup {[k |-> "Return", id |-> <<>>, e |-> e] : e \in SeqsUpTo(ExprWords, MaxExpr)}
StmtWords(d) == IF d.k = "Let" THEN <<WLet, d.id, WAssign>> \o d.e \o <<WSemi>>
                ELSE <<WReturn>> \o d.e \o <<WSemi>>
StmtExpect(d) == IF d.k = "Let" THEN [kind |-> "Let", name |-> d.id]
                 ELSE [kind |-> "Return", name |-> <<>>]
RECURSIVE ProgWords(_)
ProgWords(ds) == IF ds = <<>> THEN <<>> ELSE StmtWords(Head(ds)) \o ProgWords(Tail(ds))
\* words joined by a space, except that a `;` is written right after the
\* preceding word (`let x = 5;return 5;`)
RECURSIVE JoinGlued(_)
JoinGlued(ws) == IF ws = <<>> THEN <<>>
                 ELSE IF Len(ws) = 1 THEN Head(ws)
                 ELSE IF ws[2] = WSemi \/ Head(ws) = WSemi THEN Head(ws) \o JoinGlued(Tail(ws))
                 ELSE Head(ws) \o <<"sp">> \o JoinGlued(Tail(ws))
WFFam == {[fam |-> "wf",
           chars |-> IF glued THEN JoinGlued(ProgWords(ds)) ELSE Join(ProgWords(ds)),
           exp |-> [i \in 1..Len(ds) |-> StmtExpect(ds[i])], id |-> <<>>] :
             ds \in SeqsUpTo(StmtDescs, MaxStmts) \ {<<>>}, glued \in BOOLEAN}

\* `<ident>;` for non-keyword identifiers
IdentFam == {[fam |-> "ident", chars |-> w \o <<";">>, exp |-> <<>>, id |-> w] :
               w \in {w \in SeqsUpTo({"f", "n", "_"}, MaxIdLen) \ {<<>>} :
                        look_up_identifier(w).t = "Identifier"}}

ParseInputs == RandFam \cup WFFam \cup IdentFam \cup InfixFam \cup {BadLet, NoAssign}

\* Parser::next_token: curr_token = take(peek_token); peek_token = lexer.next()
next_token(s, pk, r, c) ==
    LET x == LexNextFn(s, r, c) IN [curr |-> pk, peek |-> x.res, rp |-> x.rp, ch |-> x.ch]

SetTokens(a) == curr' = a.curr /\ peek' = a.peek /\ lrp' = a.rp /\ lch' = a.ch

AdvanceTokens == SetTokens(next_token(src.chars, peek, lrp, lch))

prefix_parsing_fn_AnyToken(tok) == [some |-> TRUE, name |-> tok.s]

prefix_parsing_fn(tok) ==
    IF tok.t = "Identifier" THEN [some |-> TRUE, name |-> tok.s]
    ELSE [some |-> FALSE, name |-> <<>>]

LDummy ==
    /\ input = <<>> /\ rp = 0 /\ ch = NoChar /\ out = <<>>
    /\ last = Tok("init") /\ tokStart = 0 /\ nones = 0

\* Lexer::from then Parser::new (two next_token calls)
PInit ==
    /\ src \in ParseInputs
    /\ LET a == next_token(src.chars, NoneTok, 0, Nth(src.chars, 0))
           b == next_token(src.chars, a.peek, a.rp, a.ch)
       IN /\ curr = b.curr /\ peek = b.peek /\ lrp = b.rp /\ lch = b.ch
    /\ prog = <<>>
    /\ pc = "loop"
    /\ pend = [kind |-> "none", name |-> <<>>]
    /\ LDummy

\* parse_program: loop exit when curr_token is None
ParseProgram ==
    /\ pc = "loop"
    /\ curr = NoneTok
    /\ pc' = "done"
    /\ UNCHANGED <<src, lrp, lch, curr, peek, prog, pend>>
    /\ UNCHANGED lvars

\* parse_let_statement; when it returns None, parse_program's next_token
ParseLetStatement ==
    /\ pc = "loop"
    /\ curr.t = "Let"
    /\ IF peek.t # "Identifier"
       THEN /\ AdvanceTokens
            /\ UNCHANGED <<prog, pc, pend>>
       ELSE LET a == next_token(src.chars, peek, lrp, lch) IN
            /\ pend' = [kind |-> "Let", name |-> peek.s]
            /\ UNCHANGED prog
            /\ IF a.peek = NoneTok
               THEN SetTokens(a) /\ pc' = "skip"
               ELSE IF a.peek # Tok("Assign")
               THEN SetTokens(a) /\ pc' = "panic"     \* assert_eq! in expect_peek
               ELSE SetTokens(next_token(src.chars, a.peek, a.rp, a.ch)) /\ pc' = "skip"
    /\ UNCHANGED src
    /\ UNCHANGED lvars

ParseReturnStatement ==
    /\ pc = "loop"
    /\ curr.t = "Return"
    /\ pc' = "skip"
    /\ pend' = [kind |-> "Return", name |-> <<>>]
    /\ UNCHANGED <<src, lrp, lch, curr, peek, prog>>
    /\ UNCHANGED lvars

\* parse_expression_statement, then parse_program's push and next_token
ParseExpressionStatement ==
    /\ pc = "loop"
    /\ curr # NoneTok
    /\ curr.t \notin {"Let", "Return"}
    /\ LET e == prefix_parsing_fn(curr) IN
       prog' = IF e.some THEN Append(prog, [kind |-> "Expression", name |-> e.name]) ELSE prog
    /\ AdvanceTokens
    /\ UNCHANGED <<src, pc, pend>>
    /\ UNCHANGED lvars

\* the `while !curr_token_is(Semicolon) { next_token() }` loop of the let and
\* return parsers; at the semicolon parse_program pushes and advances
SkipToSemicolon ==
    /\ pc = "skip"
    /\ IF curr.t = "Semicolon"
       THEN prog' = Append(prog, pend) /\ pc' = "loop"
       ELSE UNCHANGED <<prog, pc>>
    /\ AdvanceTokens
    /\ UNCHANGED <<src, pend>>
    /\ UNCHANGED lvars

PNext ==
    \/ ParseProgram
    \/ ParseLetStatement
    \/ ParseReturnStatement
    \/ ParseExpressionStatement
    \/ SkipToSemicolon

PSpec == PInit /\ [][PNext]_vars

PLiveSpec == PSpec /\ WF_vars(PNext)

\* parse_program run to completion (single-threaded, so weakly fair) on the
\* `<ident>;` inputs and the short word inputs
PShortInit == PInit /\ src \in IdentFam \cup RandFam

PShortLiveSpec == PShortInit /\ [][PNext]_vars /\ WF_vars(PNext)

\* C5: Parser::new followed by parse_program terminates and returns a Program,
\* for every bounded input.
C5_Claim == <>(pc = "done")

\* C6: parse_program never aborts the process on a missing expected token.
C6_Claim == pc # "panic"

\* C7: `let` not followed by an identifier is reported as an error of that
\* statement; the tokens after `let` do not become statements of the Program.
C7_Claim == (src.fam = "badlet" /\ pc = "done") => prog = <<>>

\* C8: a sequence of well-formed let/return statements is parsed into exactly
\* those statements in source order, each Let carrying its bound name.
C8_Claim == src.fam = "wf" => (pc # "panic" /\ (pc = "done" => prog = src.exp))

\* C9: on `<ident>;` parse_program returns, with exactly one Expression
\* statement naming <ident>.
C9_Claim == <>(src.fam # "ident"
                 \/ (pc = "done" /\ prog = <<[kind |-> "Expression", name |-> src.id]>>))

C9_Witness == src.fam = "ident" /\ pc = "done" /\ Len(src.id) = 2

\* C10: an infix expression statement `a + b * c` / `a + b + c` is parsed into
\* a single Expression statement (holding the operator tree).
C10_Claim == (src.fam = "infix" /\ pc = "done") =>
                (Len(prog) = 1 /\ prog[1].kind = "Expression")

====
